---------------------------- MODULE Spec2Model ----------------------------
(***************************************************************************)
(* Document processing pipeline of iscan-backend                           *)
(*   app/langgraph/document_processor.py                                   *)
(*   app/process_services/huawei_processor.py                              *)
(*                                                                         *)
(* Python values are modelled as tagged records (field k is the type):     *)
(*   None -> Null, bool -> Bool(b), str -> Str(s), list -> List(l),        *)
(*   dict -> Obj(o) with o a function from key strings to values,          *)
(*   int/float -> Num(d) with d an exact decimal [m, e] = m / 10^e.        *)
(* A str is a sequence of characters (one-character TLA+ strings; a        *)
(* multi-character chunk such as Rub stands for that substring).           *)
(* The text of an LLM response is a sequence of tokens (see Tok, Doc).     *)
(***************************************************************************)
EXTENDS Integers, Sequences, FiniteSets, TLC

(***************************************************************************)
(* Bounds of the model                                                     *)
(***************************************************************************)
\* longest LLM response text (in tokens) given to the response parser
MaxTextLen == 4

\* longest string (in characters) given to the numeric extraction
MaxNumLen == 3

\* most pages of a PDF given to process_document
MaxPages == 2

\* longest page_results given to aggregate_page_results on its own
MaxAggPages == 3

\* longest required_fields given to validate_result_node on its own
MaxFields == 2

(***************************************************************************)
(* Python values                                                           *)
(***************************************************************************)
Null == [k |-> "null"]

Bool(b) == [k |-> "bool", b |-> b]

Str(s) == [k |-> "str", s |-> s]

List(l) == [k |-> "list", l |-> l]

Obj(o) == [k |-> "obj", o |-> o]

Num(d) == [k |-> "num", n |-> d]

\* the empty dict {}
EmptyDict == Obj(<<>>)

IsDict(v) == v.k = "obj"

\* key in d
Has(d, key) == key \in DOMAIN d.o

\* d[key] = v (on a copy: values are immutable here)
Put(d, key, v) ==
    Obj([x \in (DOMAIN d.o) \cup {key} |-> IF x = key THEN v ELSE d.o[x]])

\* d.get(key, default)
Get(d, key, default) == IF Has(d, key) THEN d.o[key] ELSE default

\* s.strip() on a sequence whose blank elements are those of blanks
Strip(s, blanks) ==
    LET keep == {i \in 1..Len(s) : s[i] \notin blanks}
    IN  IF keep = {} THEN <<>>
        ELSE SubSeq(s, CHOOSE i \in keep : \A j \in keep : i <= j,
                       CHOOSE i \in keep : \A j \in keep : i >= j)

\* all sequences over S of length at most n
SeqsUpTo(S, n) == UNION {[1..m -> S] : m \in 0..n}

(***************************************************************************)
(* Text of an LLM response                                                 *)
(*   fence_json  the substring ```json                                     *)
(*   fence       the substring ``` (not followed by json)                  *)
(*   lbrace      {          rbrace   }          key   "a":                 *)
(*   ws          whitespace                                                *)
(*   junk        a word that is no JSON                                    *)
(*   doc         the JSON serialization of the value v; the serialization  *)
(*               of a dict starts with { and ends with }, that of a list   *)
(*               of scalars or of a scalar holds no brace                  *)
(***************************************************************************)
Tok(t) == [t |-> t, v |-> Null]

Doc(v) == [t |-> "doc", v |-> v]

IsWs(tok) == tok.t = "ws"

\* the whitespace of a text, as Strip takes it
WsTokens == {Tok("ws")}

\* json.JSONDecodeError raised by json.loads
Fail == [k |-> "fail"]

\* json.loads(text)
RECURSIVE json_loads(_)
json_loads(text) ==
    LET NotWs(tok) == ~IsWs(tok)
        s == SelectSeq(text, NotWs)
        n == Len(s)
    IN  IF n = 1 /\ s[1].t = "doc" THEN s[1].v
        ELSE IF n >= 2 /\ s[1].t = "lbrace" /\ s[n].t = "rbrace"
        THEN IF n = 2 THEN EmptyDict
             ELSE IF s[2].t = "key"
             THEN LET inner == json_loads(SubSeq(s, 3, n - 1))
                  IN  IF inner = Fail THEN Fail ELSE Obj("a" :> inner)
             ELSE Fail
        ELSE Fail

\* the tokens at which the substring ``` occurs (```json starts with ```),
\* and those at which ```json occurs
AnyFence == {"fence", "fence_json"}

JsonFence == {"fence_json"}

\* marker in content
Contains(text, marker) == \E i \in 1..Len(text) : text[i].t \in marker

\* content.find(marker, start): least index >= start of a token of marker,
\* 0 when there is none (Python's -1)
Find(text, marker, start) ==
    LET hits == {i \in start..Len(text) : text[i].t \in marker}
    IN  IF hits = {} THEN 0 ELSE CHOOSE i \in hits : \A j \in hits : i <= j

HasOpen(tok) == tok.t = "lbrace" \/ (tok.t = "doc" /\ IsDict(tok.v))

HasClose(tok) == tok.t = "rbrace" \/ (tok.t = "doc" /\ IsDict(tok.v))

\* re.search(r'(\{.*\})', content, re.DOTALL).group(1): from the first { to
\* the last } after it; <<>> when there is no match
BraceSpan(text) ==
    LET opens == {i \in 1..Len(text) : HasOpen(text[i])}
        closes == {i \in 1..Len(text) : HasClose(text[i])}
    IN  IF opens = {} \/ closes = {} THEN <<>>
        ELSE LET first == CHOOSE i \in opens : \A j \in opens : i <= j
                 last == CHOOSE i \in closes : \A j \in closes : i >= j
             IN  IF last >= first /\ (last > first \/ text[first].t = "doc")
                 THEN SubSeq(text, first, last)
                 ELSE <<>>

\* the sentinel returned when parsing fails
ParseSentinel(content) ==
    Obj([raw_response |-> Str(content),
         parsing_error |->
             Str(<<"Failed to extract valid JSON from ChatGPT response">>)])

\* the interior of the fenced block opened by the first occurrence of
\* marker, parsed as JSON; Fail when the block is not closed
FencedBlock(content, marker) ==
    LET start == Find(content, marker, 1) + 1
        end == Find(content, AnyFence, start)
    IN  IF end # 0
        THEN json_loads(Strip(SubSeq(content, start, end - 1), WsTokens))
        ELSE Fail

\* the value returned by a strategy, or the sentinel when it raised
OrSentinel(r, content) == IF r = Fail THEN ParseSentinel(content) ELSE r

parse_chatgpt_response(text) ==
    LET direct == json_loads(text)
        content == Strip(text, WsTokens)
    IN  IF direct # Fail THEN direct
        ELSE IF Contains(content, JsonFence)
        THEN OrSentinel(FencedBlock(content, JsonFence), content)
        ELSE IF Contains(content, AnyFence)
        THEN OrSentinel(FencedBlock(content, AnyFence), content)
        ELSE IF BraceSpan(content) # <<>>
        THEN OrSentinel(json_loads(BraceSpan(content)), content)
        ELSE ParseSentinel(content)

(***************************************************************************)
(* Numbers: float(str) and HuaweiProcessor._extract_numeric_value          *)
(* A float is the exact decimal [m, e] = m / 10^e, with e least.           *)
(***************************************************************************)
Digits == {"0", "1", "2", "3", "4", "5", "6", "7", "8", "9"}

DigitValue(c) ==
    CASE c = "0" -> 0 [] c = "1" -> 1 [] c = "2" -> 2 [] c = "3" -> 3
      [] c = "4" -> 4 [] c = "5" -> 5 [] c = "6" -> 6 [] c = "7" -> 7
      [] c = "8" -> 8 [] c = "9" -> 9

IsDigit(c) == c \in Digits

Spaces == {" "}

RECURSIVE DecNorm(_, _)
DecNorm(m, e) ==
    IF e > 0 /\ m % 10 = 0 THEN DecNorm(m \div 10, e - 1) ELSE [m |-> m, e |-> e]

RECURSIVE Pow10(_)
Pow10(n) == IF n = 0 THEN 1 ELSE 10 * Pow10(n - 1)

\* the float 0.0
Zero == DecNorm(0, 0)

\* a + b
DecAdd(a, b) ==
    LET e == IF a.e >= b.e THEN a.e ELSE b.e
    IN  DecNorm(a.m * Pow10(e - a.e) + b.m * Pow10(e - b.e), e)

\* the integer written by a sequence of digits
RECURSIVE IntOf(_)
IntOf(ds) ==
    IF ds = <<>> THEN 0
    ELSE 10 * IntOf(SubSeq(ds, 1, Len(ds) - 1)) + DigitValue(ds[Len(ds)])

\* ValueError raised by float(str)
ValueError == [k |-> "value_error"]

\* float(s) for a str s: surrounding whitespace is ignored, then s must be
\* digits with at most one point and at least one digit
float_of_str(s) ==
    LET t == Strip(s, Spaces)
        IsPoint(c) == c = "."
        points == {i \in 1..Len(t) : IsPoint(t[i])}
        digits == SelectSeq(t, IsDigit)
    IN  IF /\ \A i \in 1..Len(t) : IsDigit(t[i]) \/ IsPoint(t[i])
           /\ Cardinality(points) <= 1
           /\ digits # <<>>
        THEN LET fraction == IF points = {} THEN 0
                             ELSE Len(t) - (CHOOSE i \in points : TRUE)
             IN  DecNorm(IntOf(digits), fraction)
        ELSE ValueError

\* s.replace(old, "") for a one-character (or one-chunk) old
Remove(s, old) == LET Keep(c) == c # old IN SelectSeq(s, Keep)

\* s.replace(old, new) for one-character old and new
Replace(s, old, new) == [i \in 1..Len(s) |-> IF s[i] = old THEN new ELSE s[i]]

\* re.search(r'[\d.]+', s).group(): the first maximal run of digits and
\* points; <<>> when there is no match
FirstNumericRun(s) ==
    LET InRun(c) == IsDigit(c) \/ c = "."
        starts == {i \in 1..Len(s) : InRun(s[i])}
    IN  IF starts = {} THEN <<>>
        ELSE LET first == CHOOSE i \in starts : \A j \in starts : i <= j
                 stops == {i \in first..Len(s) : ~InRun(s[i])}
                 last == IF stops = {} THEN Len(s)
                         ELSE (CHOOSE i \in stops : \A j \in stops : i <= j) - 1
             IN  SubSeq(s, first, last)

\* the currency markers stripped from amounts: the rouble sign (U+20BD) and
\* the three-letter Cyrillic abbreviation of "rouble", each one chunk of a str
RoubleSign == "<U+20BD>"

Rub == "<rub>"

\* HuaweiProcessor._extract_numeric_value(value_str)
extract_numeric_value(value_str) ==
    IF value_str.k = "num" THEN value_str.n
    ELSE IF value_str.k = "bool" THEN (IF value_str.b THEN DecNorm(1, 0) ELSE Zero)
    ELSE IF value_str.k # "str" THEN Zero
    ELSE LET no_currency == Remove(Remove(Remove(value_str.s, RoubleSign), Rub), "$")
             no_separators == Strip(Remove(Remove(no_currency, ","), " "), Spaces)
             cleaned == Replace(no_separators, ",", ".")
             numeric_match == FirstNumericRun(cleaned)
         IN  IF numeric_match # <<>> /\ float_of_str(numeric_match) # ValueError
             THEN float_of_str(numeric_match)
             ELSE Zero

(***************************************************************************)
(* aggregate_page_results                                                  *)
(***************************************************************************)
\* a str literal of the program, and an int
S(x) == Str(<<x>>)

PyInt(i) == Num(DecNorm(i, 0))

\* bool(v): Python truthiness
Truthy(v) ==
    CASE v.k = "null" -> FALSE
      [] v.k = "bool" -> v.b
      [] v.k = "str" -> v.s # <<>>
      [] v.k = "list" -> v.l # <<>>
      [] v.k = "obj" -> DOMAIN v.o # {}
      [] v.k = "num" -> v.n # Zero

\* Characters of a service description: ObjectKw is the Cyrillic keyword for
\* "object" (site), OrderKw the Cyrillic keyword for "order", Newline "\n";
\* both keywords stand for any capitalization (the patterns ignore case).
ObjectKw == "<object>"

OrderKw == "<order>"

Newline == "<nl>"

\* \s
Whitespace == {" ", Newline}

\* [^\w]: the characters that are neither letters nor digits (a keyword is
\* letters)
NonWordChars == {" ", Newline, ":", ",", ".", "<numero>", RoubleSign, "$"}

\* the end of the longest run of characters of chars that starts at index
\* from (from - 1 when the run is empty)
RunEnd(s, from, chars) ==
    LET stops == {i \in from..Len(s) : s[i] \notin chars}
    IN  IF stops = {} THEN Len(s)
        ELSE (CHOOSE i \in stops : \A j \in stops : i <= j) - 1

\* the end of the longest run of characters outside chars that starts at
\* index from (from - 1 when the run is empty)
RunEndBefore(s, from, chars) ==
    LET stops == {i \in from..Len(s) : s[i] \in chars}
    IN  IF stops = {} THEN Len(s)
        ELSE (CHOOSE i \in stops : \A j \in stops : i <= j) - 1

\* re.findall(kw + r'[:\s]+([^,\n]+)', s, re.IGNORECASE), stripped, from
\* index from on, as a set
RECURSIVE FindSites(_, _, _)
FindSites(s, kw, from) ==
    LET hits == {i \in from..Len(s) : s[i] = kw}
    IN  IF hits = {} THEN {}
        ELSE LET i == CHOOSE h \in hits : \A j \in hits : h <= j
                 name_stops == {",", Newline}
                 sepEnd == RunEnd(s, i + 1, {":"} \cup Whitespace)
                 \* the separator run gives characters back until a name
                 \* of at least one character follows it
                 ends == {e \in (i + 1)..sepEnd :
                             e < Len(s) /\ s[e + 1] \notin name_stops}
             IN  IF ends = {} THEN FindSites(s, kw, i + 1)
                 ELSE LET e == CHOOSE x \in ends : \A y \in ends : x >= y
                          nameEnd == RunEndBefore(s, e + 1, name_stops)
                      IN  {Strip(SubSeq(s, e + 1, nameEnd), Whitespace)}
                              \cup FindSites(s, kw, nameEnd + 1)

\* re.findall(kw + r'[^\w]*(\d+)', s, re.IGNORECASE) from index from on,
\* as a set
RECURSIVE FindOrders(_, _, _)
FindOrders(s, kw, from) ==
    LET hits == {i \in from..Len(s) : s[i] = kw}
    IN  IF hits = {} THEN {}
        ELSE LET i == CHOOSE h \in hits : \A j \in hits : h <= j
                 gapEnd == RunEnd(s, i + 1, NonWordChars)
                 numEnd == RunEnd(s, gapEnd + 1, Digits)
             IN  IF numEnd > gapEnd
                 THEN {SubSeq(s, gapEnd + 1, numEnd)}
                          \cup FindOrders(s, kw, numEnd + 1)
                 ELSE FindOrders(s, kw, i + 1)

\* the concatenation of act.items over the pages, each dict item copied and
\* tagged with the source_page of its page
RECURSIVE MergeItems(_)
MergeItems(pages) ==
    IF pages = <<>> THEN <<>>
    ELSE LET page == Head(pages)
             items ==
                 IF /\ Has(page, "act") /\ IsDict(page.o["act"])
                    /\ Has(page.o["act"], "items")
                    /\ page.o["act"].o["items"].k = "list"
                 THEN SelectSeq(page.o["act"].o["items"].l, IsDict)
                 ELSE <<>>
             tagged == [i \in 1..Len(items) |->
                           Put(items[i], "source_page",
                               Get(page, "page_number", PyInt(0)))]
         IN  tagged \o MergeItems(Tail(pages))

\* service_description of an item when it is a str, else the empty str
DescriptionOf(item) ==
    LET d == Get(item, "service_description", Str(<<>>))
    IN  IF d.k = "str" THEN d.s ELSE <<>>

\* float(str(v).replace(",", ".")), ValueError when it raises
QuantityOf(v) ==
    CASE v.k = "num" -> v.n
      [] v.k = "str" -> float_of_str(Replace(v.s, ",", "."))
      [] OTHER -> ValueError

\* float(cost_str) if cost_str else 0, with cost_str = str(v) without the
\* rouble markers and commas, stripped; ValueError when it raises
CostOf(v) ==
    CASE v.k = "num" -> v.n
      [] v.k = "str" ->
            LET cost_str ==
                    Strip(Remove(Remove(Remove(v.s, RoubleSign), Rub), ","), Spaces)
            IN  IF cost_str = <<>> THEN Zero ELSE float_of_str(cost_str)
      [] OTHER -> ValueError

\* the sum of the floats of a sequence, the ValueError entries skipped
RECURSIVE SumFloats(_)
SumFloats(values) ==
    IF values = <<>> THEN Zero
    ELSE LET rest == SumFloats(SubSeq(values, 1, Len(values) - 1))
             last == values[Len(values)]
         IN  IF last = ValueError THEN rest ELSE DecAdd(rest, last)

\* total_quantity: the sum of the quantities that convert
TotalQuantity(items) ==
    SumFloats([i \in 1..Len(items) |->
                  IF Has(items[i], "quantity")
                  THEN QuantityOf(items[i].o["quantity"]) ELSE ValueError])

\* total_cost: the sum of the costs that convert
TotalCost(items) ==
    SumFloats([i \in 1..Len(items) |->
                  IF Has(items[i], "total_cost")
                  THEN CostOf(items[i].o["total_cost"]) ELSE ValueError])

MetadataKeys ==
    {"document_type", "document_number", "date_of_issue", "customer",
     "contractor", "contract"}

IsSuccess(page) ==
    Get(page, "page_processing_status", Null) = S("success")

\* the elements of a set of strs as a list, in some order
RECURSIVE SetToList(_)
SetToList(set) ==
    IF set = {} THEN <<>>
    ELSE LET x == CHOOSE y \in set : TRUE
         IN  <<Str(x)>> \o SetToList(set \ {x})

\* the zero-success mapping counting the failed pages as processed
ZeroSuccessResult_CountsAll(page_results) ==
    Obj([error |-> S("No pages were successfully processed"),
         page_results |-> List(page_results),
         pages_processed |-> PyInt(Len(page_results))])

\* the mapping returned when no page succeeded
ZeroSuccessResult(page_results) ==
    Obj([error |-> S("No pages were successfully processed"),
         page_results |-> List(page_results),
         pages_processed |-> PyInt(0)])

\* total_pages counting the successful pages only
TotalPages_Successful(page_results, successful_pages) ==
    PyInt(Len(successful_pages))

\* the total_pages entry of the aggregated result
TotalPages(page_results, successful_pages) == PyInt(Len(page_results))

\* base_data always taken from the first successful page
BaseData_FirstSuccessful(successful_pages) == successful_pages[1]

\* base_data: the first successful page without parsing error that has
\* document_type, else the first successful page
BaseData(successful_pages) ==
    LET complete == {i \in 1..Len(successful_pages) :
                        /\ ~Truthy(Get(successful_pages[i], "parsing_error", Null))
                        /\ Has(successful_pages[i], "document_type")}
    IN  IF complete # {}
        THEN successful_pages[CHOOSE i \in complete : \A j \in complete : i <= j]
        ELSE successful_pages[1]

aggregate_page_results(page_results) ==
    LET successful_pages == SelectSeq(page_results, IsSuccess)
        base_data == BaseData(successful_pages)
        metadata == [key \in MetadataKeys \cap DOMAIN base_data.o |-> base_data.o[key]]
        all_act_items == MergeItems(successful_pages)
        sites == UNION {FindSites(DescriptionOf(all_act_items[i]), ObjectKw, 1) :
                           i \in 1..Len(all_act_items)}
        order_numbers ==
            UNION {FindOrders(DescriptionOf(all_act_items[i]), OrderKw, 1) :
                      i \in 1..Len(all_act_items)}
        act == Obj([items |-> List(all_act_items),
                    totals |-> Obj([total_quantity |->
                                        Num(TotalQuantity(all_act_items)),
                                    total_cost |->
                                        Num(TotalCost(all_act_items)),
                                    items_count |-> PyInt(Len(all_act_items))])])
        aggregated_data ==
            Put(Put(Put(Obj(metadata), "act", act),
                    "sites", List(SetToList(sites))),
                "order_numbers", List(SetToList(order_numbers)))
        failed == LET NotSuccess(page) == ~IsSuccess(page)
                  IN  SelectSeq(page_results, NotSuccess)
    IN  IF successful_pages = <<>>
        THEN ZeroSuccessResult(page_results)
        ELSE Obj([pages_processed |-> PyInt(Len(successful_pages)),
                  total_pages |-> TotalPages(page_results, successful_pages),
                  page_results |-> List(page_results),
                  aggregated_data |-> aggregated_data,
                  processing_summary |->
                      Obj([pages_with_errors |-> PyInt(Len(failed)),
                           pages_successfully_processed |-> PyInt(Len(successful_pages)),
                           total_act_items_found |-> PyInt(Len(all_act_items)),
                           unique_sites_found |-> PyInt(Cardinality(sites)),
                           unique_order_numbers_found |->
                               PyInt(Cardinality(order_numbers))])])

(***************************************************************************)
(* validate_result_node helpers                                            *)
(***************************************************************************)
\* the dict key named by a str of the program (one chunk)
KeyName(v) == v.s[1]

\* str(v) inside a message
Repr(v) == IF v.k = "str" THEN v.s ELSE <<ToString(v)>>

\* _is_valid_number(value)
is_valid_number(value) ==
    CASE value.k \in {"num", "bool"} -> TRUE
      [] value.k = "str" -> float_of_str(Replace(value.s, ",", ".")) # ValueError
      [] OTHER -> FALSE

NumericFields == <<"quantity", "unit_price", "total_cost">>

\* the messages of one act item (index i, 1-based) of perform_verification
ItemErrors(item, i) ==
    LET Bad(field) == Has(item, field) /\ ~is_valid_number(item.o[field])
        bad == SelectSeq(NumericFields, Bad)
    IN  [j \in 1..Len(bad) |->
            Str(<<"Item ", ToString(i), ": Invalid ", bad[j], " value: ">>
                    \o Repr(item.o[bad[j]]))]

RECURSIVE AllItemErrors(_, _)
AllItemErrors(items, i) ==
    IF i > Len(items) THEN <<>>
    ELSE (IF IsDict(items[i]) THEN ItemErrors(items[i], i) ELSE <<>>)
             \o AllItemErrors(items, i + 1)

\* perform_verification(result)
perform_verification(result) ==
    IF ~Has(result, "act") THEN <<>>
    ELSE LET act == result.o["act"]
         IN  IF act.k \in {"null", "num", "bool"}
             \* "items" in act raises TypeError, which is caught
             THEN <<Str(<<"Verification error: ", "TypeError">>)>>
             ELSE IF ~IsDict(act) THEN <<>>
             ELSE LET item_errors ==
                          IF Has(act, "items") /\ act.o["items"].k = "list"
                          THEN AllItemErrors(act.o["items"].l, 1)
                          ELSE <<>>
                      total == Get(act, "total", Null)
                      total_errors ==
                          IF IsDict(total)
                          THEN (IF /\ Has(total, "total_cost")
                                   /\ ~is_valid_number(total.o["total_cost"])
                                THEN <<Str(<<"Invalid total cost: ">>
                                               \o Repr(total.o["total_cost"]))>>
                                ELSE <<>>)
                               \o
                               (IF /\ Has(total, "quantity")
                                   /\ ~is_valid_number(total.o["quantity"])
                                THEN <<Str(<<"Invalid total quantity: ">>
                                               \o Repr(total.o["quantity"]))>>
                                ELSE <<>>)
                          ELSE <<>>
                  IN  item_errors \o total_errors

\* a message for every required field, present or not
MissingFieldErrors_All(result, required_fields) ==
    [j \in 1..Len(required_fields) |->
        Str(<<"Missing required field: ", KeyName(required_fields[j])>>)]

\* a required field counts as present when aggregated_data carries it
MissingFieldErrors_Nested(result, required_fields) ==
    LET Missing(field) ==
            /\ ~Has(result, KeyName(field))
            /\ ~(Has(result, "aggregated_data")
                    /\ Has(result.o["aggregated_data"], KeyName(field)))
        missing == SelectSeq(required_fields, Missing)
    IN  [j \in 1..Len(missing) |->
            Str(<<"Missing required field: ", KeyName(missing[j])>>)]

\* the missing-field messages of validate_result_node
MissingFieldErrors(result, required_fields) ==
    LET Missing(field) == ~Has(result, KeyName(field))
        missing == SelectSeq(required_fields, Missing)
    IN  [j \in 1..Len(missing) |->
            Str(<<"Missing required field: ", KeyName(missing[j])>>)]

\* processing_result as validate_result_node leaves it
Validated(result, required_fields, verification) ==
    LET validation_errors ==
            MissingFieldErrors(result, required_fields)
                \o (IF verification THEN perform_verification(result) ELSE <<>>)
        flagged == IF validation_errors # <<>>
                   THEN Put(result, "validation_errors", List(validation_errors))
                   ELSE result
    IN  Put(flagged, "verification_performed", Bool(verification))

(***************************************************************************)
(* HuaweiProcessor.process_result                                          *)
(***************************************************************************)
\* an exception that leaves process_result (TypeError, AttributeError)
Raised == [k |-> "raised"]

\* `key in v` raises TypeError for these values
NotContainer(v) == v.k \in {"null", "num", "bool"}

\* key in v: the keys of a dict, the elements of a list, the chunks of a str
PyIn(key, v) ==
    CASE v.k = "obj" -> Has(v, key)
      [] v.k = "list" -> \E i \in 1..Len(v.l) : v.l[i] = S(key)
      [] v.k = "str" -> \E i \in 1..Len(v.s) : v.s[i] = key
      [] OTHER -> FALSE

\* `if "act" in data and "items" in data["act"]` followed by the read of
\* data["act"]["items"]: the block is skipped, taken, or an exception is raised
ItemsBranch(data) ==
    IF NotContainer(data) THEN "raise"
    ELSE IF ~PyIn("act", data) THEN "skip"
    ELSE IF ~IsDict(data) THEN "raise"
    ELSE IF NotContainer(data.o["act"]) THEN "raise"
    ELSE IF ~PyIn("items", data.o["act"]) THEN "skip"
    ELSE IF ~IsDict(data.o["act"]) THEN "raise"
    ELSE "take"

\* the keys of a dict as a list of strs
RECURSIVE KeyList(_)
KeyList(keys) ==
    IF keys = {} THEN <<>>
    ELSE LET x == CHOOSE y \in keys : TRUE IN <<S(x)>> \o KeyList(keys \ {x})

\* `for item in v`: the values the loop visits (none when v cannot be
\* iterated, which raises TypeError)
Iterate(v) ==
    CASE v.k = "list" -> v.l
      [] v.k = "obj" -> KeyList(DOMAIN v.o)
      [] v.k = "str" -> [i \in 1..Len(v.s) |-> S(v.s[i])]
      [] OTHER -> <<>>

\* len(v)
LenOf(v) ==
    CASE v.k = "list" -> Len(v.l)
      [] v.k = "obj" -> Cardinality(DOMAIN v.o)
      [] v.k = "str" -> Len(v.s)

\* float(v), ValueError when it raises ValueError or TypeError
FloatOf(v) ==
    CASE v.k = "num" -> v.n
      [] v.k = "bool" -> (IF v.b THEN DecNorm(1, 0) ELSE Zero)
      [] v.k = "str" -> float_of_str(v.s)
      [] OTHER -> ValueError

\* processed_item after the unit_price block
WithUnitPriceNumeric(processed_item) ==
    IF Has(processed_item, "unit_price")
    THEN Put(processed_item, "unit_price_numeric",
             Num(extract_numeric_value(processed_item.o["unit_price"])))
    ELSE processed_item

\* processed_item after the total_cost block
WithTotalCostNumeric(processed_item) ==
    IF Has(processed_item, "total_cost")
    THEN Put(processed_item, "total_cost_numeric",
             Num(extract_numeric_value(processed_item.o["total_cost"])))
    ELSE processed_item

\* f, or 0.0 when the conversion raised
OrZero(f) == IF f = ValueError THEN Zero ELSE f

\* processed_item after the quantity block
WithQuantityNumeric(processed_item) ==
    IF Has(processed_item, "quantity")
    THEN Put(processed_item, "quantity_numeric",
             Num(OrZero(FloatOf(processed_item.o["quantity"]))))
    ELSE processed_item

\* HuaweiProcessor._process_act_item(item): item.copy() raises AttributeError
\* for a value that is neither a dict nor a list, and the item assignment
\* raises TypeError for a list that holds one of the field names
process_act_item(item) ==
    IF item.k = "list"
    THEN (IF \E f \in {"unit_price", "total_cost", "quantity"} : PyIn(f, item)
          THEN Raised ELSE item)
    ELSE IF ~IsDict(item) THEN Raised
    ELSE WithQuantityNumeric(WithTotalCostNumeric(WithUnitPriceNumeric(item)))

\* the loop over the items raises
ItemsRaise(items) ==
    NotContainer(items)
        \/ \E i \in 1..Len(Iterate(items)) :
               process_act_item(Iterate(items)[i]) = Raised

\* processed_items
ProcessedItems(items) ==
    [i \in 1..Len(Iterate(items)) |-> process_act_item(Iterate(items)[i])]

\* total_quantity of _process_aggregated_result: the sum of
\* float(processed_item["quantity"]) over the items where it converts
PostTotalQuantity(processed_items) ==
    SumFloats([i \in 1..Len(processed_items) |->
                  IF PyIn("quantity", processed_items[i])
                  THEN FloatOf(processed_items[i].o["quantity"])
                  ELSE ValueError])

\* total_cost of _process_aggregated_result: the sum of
\* _extract_numeric_value(processed_item["total_cost"])
PostTotalCost(processed_items) ==
    SumFloats([i \in 1..Len(processed_items) |->
                  IF PyIn("total_cost", processed_items[i])
                  THEN extract_numeric_value(processed_items[i].o["total_cost"])
                  ELSE ValueError])

\* The keywords of the site patterns (the Cyrillic words for object, site,
\* station, node) and of the order patterns (the Cyrillic word for order,
\* the word order, the numero sign), each one chunk of a str.
SiteKw == "<site>"

StationKw == "<station>"

NodeKw == "<node>"

OrderEnKw == "<order_en>"

NumeroSign == "<numero>"

SiteKeywords == {ObjectKw, SiteKw, StationKw, NodeKw}

OrderKeywords == {OrderKw, OrderEnKw, NumeroSign}

\* the loop over data["act"]["items"] of _extract_unique_sites and
\* _extract_unique_order_numbers raises: item.get needs a dict
DescriptionsRaise(data) ==
    \/ ItemsBranch(data) = "raise"
    \/ /\ ItemsBranch(data) = "take"
       /\ \/ NotContainer(data.o["act"].o["items"])
          \/ \E i \in 1..Len(Iterate(data.o["act"].o["items"])) :
                 ~IsDict(Iterate(data.o["act"].o["items"])[i])

\* the service descriptions the two extractions scan
Descriptions(data) ==
    IF ItemsBranch(data) = "take"
    THEN LET items == Iterate(data.o["act"].o["items"])
         IN  {DescriptionOf(items[i]) : i \in 1..Len(items)}
    ELSE {}

\* HuaweiProcessor._extract_unique_sites(data), as a set
extract_unique_sites(data) ==
    UNION {FindSites(d, kw, 1) : d \in Descriptions(data), kw \in SiteKeywords}

\* HuaweiProcessor._extract_unique_order_numbers(data), as a set
extract_unique_order_numbers(data) ==
    UNION {FindOrders(d, kw, 1) : d \in Descriptions(data), kw \in OrderKeywords}

\* aggregated_data["act"] after the update of the totals and the items
WithTotals(act, processed_items) ==
    Put(Put(act, "totals",
            Put(Put(Get(act, "totals", EmptyDict), "total_quantity",
                    Num(PostTotalQuantity(processed_items))),
                "total_cost", Num(PostTotalCost(processed_items)))),
        "items", List(processed_items))

\* aggregated_data after the block that processes the act items (lines
\* 36-65), Raised when the block raises: the items cannot be iterated, an item
\* cannot be copied, or the totals cannot be assigned to
WithProcessedItems(aggregated_data) ==
    IF ItemsBranch(aggregated_data) = "raise" THEN Raised
    ELSE IF ItemsBranch(aggregated_data) = "skip" THEN aggregated_data
    ELSE IF ItemsRaise(aggregated_data.o["act"].o["items"]) THEN Raised
    ELSE IF ~IsDict(Get(aggregated_data.o["act"], "totals", EmptyDict)) THEN Raised
    ELSE Put(aggregated_data, "act",
             WithTotals(aggregated_data.o["act"],
                        ProcessedItems(aggregated_data.o["act"].o["items"])))

\* the processing_stats block (lines 68-73) cannot be computed: a .get on a
\* value that is no dict, len of a value without length, or an item without
\* .get
StatsRaise(aggregated_data) ==
    \/ ~IsDict(aggregated_data)
    \/ ~IsDict(Get(aggregated_data, "act", EmptyDict))
    \/ NotContainer(Get(Get(aggregated_data, "act", EmptyDict), "items", List(<<>>)))
    \/ DescriptionsRaise(aggregated_data)

\* the processing_stats block
ProcessingStats(result, aggregated_data) ==
    Obj([pages_processed |-> Get(result, "pages_processed", PyInt(0)),
         total_act_items |->
             PyInt(LenOf(Get(Get(aggregated_data, "act", EmptyDict),
                             "items", List(<<>>)))),
         unique_sites |->
             PyInt(Cardinality(extract_unique_sites(aggregated_data))),
         unique_order_numbers |->
             PyInt(Cardinality(extract_unique_order_numbers(aggregated_data)))])

\* processed once aggregated_data went through the items block: Raised when
\* that block or the processing_stats block raises
WithProcessingStats(result, aggregated_data) ==
    IF aggregated_data = Raised THEN Raised
    ELSE IF StatsRaise(aggregated_data) THEN Raised
    ELSE Put(Put(result, "aggregated_data", aggregated_data),
             "processing_stats", ProcessingStats(result, aggregated_data))

\* HuaweiProcessor._process_aggregated_result(result)
process_aggregated_result(result) ==
    WithProcessingStats(
        result, WithProcessedItems(Get(result, "aggregated_data", EmptyDict)))

\* processed after the block that processes the act items (lines 82-86)
WithItemsProcessed(processed) ==
    IF ItemsBranch(processed) = "raise" THEN Raised
    ELSE IF ItemsBranch(processed) = "skip" THEN processed
    ELSE IF ItemsRaise(processed.o["act"].o["items"]) THEN Raised
    ELSE Put(processed, "act",
             Put(processed.o["act"], "items",
                 List(ProcessedItems(processed.o["act"].o["items"]))))

\* processed after the block that adds total_cost_numeric (lines 89-92)
WithNumericTotal(processed) ==
    IF processed = Raised THEN Raised
    ELSE IF ~Has(processed, "act") THEN processed
    ELSE LET act == processed.o["act"]
         IN  IF NotContainer(act) THEN Raised
             ELSE IF ~PyIn("totals", act) THEN processed
             ELSE IF ~IsDict(act) THEN Raised
             ELSE LET totals == act.o["totals"]
                  IN  IF NotContainer(totals) THEN Raised
                      ELSE IF ~PyIn("total_cost", totals) THEN processed
                      ELSE IF ~IsDict(totals) THEN Raised
                      ELSE Put(processed, "act",
                               Put(act, "totals",
                                   Put(totals, "total_cost_numeric",
                                       Num(extract_numeric_value(
                                               totals.o["total_cost"])))))

\* HuaweiProcessor._process_single_page_result(result)
process_single_page_result(result) ==
    WithNumericTotal(WithItemsProcessed(result))

\* HuaweiProcessor.process_result(result)
process_result(result) ==
    IF Has(result, "error") THEN result
    ELSE IF Has(result, "page_results") /\ Has(result, "aggregated_data")
    THEN process_aggregated_result(result)
    ELSE process_single_page_result(result)

(***************************************************************************)
(* State                                                                   *)
(***************************************************************************)
\* parse_chatgpt_response: its argument, its return value, its position
VARIABLES content, parsed, parse_pc

\* _extract_numeric_value: its argument, its return value, its position
VARIABLES value_str, numeric, num_pc

\* aggregate_page_results: its argument, its return value, its position
VARIABLES agg_pages, aggregated, agg_pc

\* process_document: the fields of DocumentState, the position of the run in
\* the graph (pc) and the value returned to the caller (output)
VARIABLES file_content, file_type_prompts, processing_result, page_results,
          current_page, total_pages, error, processing_mode,
          verification_enabled, extracted_text, pc, output

\* validate_result_node on its own: the processing_result it finds, the
\* required_fields of the bundle, the state's verification_enabled, the
\* processing_result it leaves (Raised when it raises), its position
VARIABLES val_result, val_fields, val_verification, validated, val_pc

\* HuaweiProcessor.process_result: its argument, its return value (Raised
\* when it raises), its position
VARIABLES post_result, processed, post_pc

\* the collaborators of one run: whether ChatOpenAI(...) can be constructed,
\* and the outcome of the i-th llm.invoke of the run
VARIABLES client_ok, llm_calls

parseVars == <<content, parsed, parse_pc>>

numVars == <<value_str, numeric, num_pc>>

aggVars == <<agg_pages, aggregated, agg_pc>>

inputVars == <<file_content, file_type_prompts, client_ok, llm_calls>>

stateVars == <<processing_result, page_results, current_page, total_pages,
               error, processing_mode, verification_enabled, extracted_text>>

docVars == <<inputVars, stateVars, pc, output>>

valVars == <<val_result, val_fields, val_verification, validated, val_pc>>

postVars == <<post_result, processed, post_pc>>

vars == <<parseVars, numVars, aggVars, valVars, postVars, docVars>>

ParseIdle == content = <<>> /\ parsed = Null /\ parse_pc = "idle"

NumIdle == value_str = Null /\ numeric = Zero /\ num_pc = "idle"

AggIdle == agg_pages = <<>> /\ aggregated = Null /\ agg_pc = "idle"

ValIdle ==
    /\ val_result = EmptyDict /\ val_fields = List(<<>>)
    /\ val_verification = FALSE
    /\ validated = Null /\ val_pc = "idle"

PostIdle == post_result = EmptyDict /\ processed = Null /\ post_pc = "idle"

\* the state process_document builds
InitialState ==
    /\ processing_result = EmptyDict
    /\ page_results = <<>>
    /\ current_page = 0
    /\ total_pages = 0
    /\ error = ""
    /\ processing_mode = "IMAGE_OCR"
    /\ verification_enabled = FALSE
    /\ extracted_text = <<>>

DocIdle ==
    /\ file_content = [readable |-> FALSE, page_count |-> 0, text_pages |-> {}]
    /\ file_type_prompts = Null
    /\ client_ok = TRUE
    /\ llm_calls = <<>>
    /\ InitialState
    /\ pc = "idle"
    /\ output = Null

(***************************************************************************)
(* The response parser on every text of bounded length                     *)
(***************************************************************************)
\* a JSON object and a JSON array of scalars, as an LLM could write them
SampleObject == Obj("document_type" :> Str(<<"P-1">>))

SampleArray == List(<<Str(<<"P-1">>)>>)

ParseAlphabet ==
    {Tok("fence_json"), Tok("fence"), Tok("lbrace"), Tok("rbrace"),
     Tok("key"), Tok("ws"), Tok("junk"), Doc(SampleObject), Doc(SampleArray)}

ParseInit ==
    /\ content \in SeqsUpTo(ParseAlphabet, MaxTextLen)
    /\ parsed = Null
    /\ parse_pc = "call"
    /\ NumIdle /\ AggIdle /\ ValIdle /\ PostIdle /\ DocIdle

ParseCall ==
    /\ parse_pc = "call"
    /\ parsed' = parse_chatgpt_response(content)
    /\ parse_pc' = "returned"
    /\ UNCHANGED <<content, numVars, aggVars, valVars, postVars, docVars>>

SpecParse == ParseInit /\ [][ParseCall]_vars

(***************************************************************************)
(* The numeric extraction on every string of bounded length                *)
(***************************************************************************)
NumAlphabet == {"1", "2", ",", ".", " ", RoubleSign, "x"}

\* "1 234,56 <rouble sign>" and "not a number"
LocaleExample ==
    <<"1", " ", "2", "3", "4", ",", "5", "6", " ", RoubleSign>>

NotANumber == <<"n", "o", "t", " ", "a", " ", "n", "u", "m", "b", "e", "r">>

NumInputs ==
    {Str(s) : s \in SeqsUpTo(NumAlphabet, MaxNumLen)}
        \cup {Str(LocaleExample), Str(NotANumber), Null, Bool(TRUE),
              Num(DecNorm(5, 1)), List(<<>>)}

NumInit ==
    /\ value_str \in NumInputs
    /\ numeric = Zero
    /\ num_pc = "call"
    /\ ParseIdle /\ AggIdle /\ ValIdle /\ PostIdle /\ DocIdle

NumCall ==
    /\ num_pc = "call"
    /\ numeric' = extract_numeric_value(value_str)
    /\ num_pc' = "returned"
    /\ UNCHANGED <<value_str, parseVars, aggVars, valVars, postVars, docVars>>

SpecNum == NumInit /\ [][NumCall]_vars

(***************************************************************************)
(* What the LLM can answer                                                 *)
(***************************************************************************)
\* an act item with locale-formatted amounts, a site and an order number
ItemA ==
    Obj([quantity |-> Str(<<"2", ",", "5">>),
         total_cost |-> Str(<<"1", "0", "0", " ", RoubleSign>>),
         service_description |->
             Str(<<ObjectKw, ":", " ", "A", ",", " ", OrderKw, " ", "<numero>",
                   "1", "2">>)])

\* an act item with a numeric quantity and an amount that is no number
ItemB ==
    Obj([quantity |-> PyInt(1),
         total_cost |-> Str(<<"a", "b", "c">>),
         service_description |-> Str(<<OrderKw, " ", "1", "2">>)])

\* a first page: document metadata and one item
DocA ==
    Obj([document_type |-> S("P-1"),
         customer |-> S("Huawei"),
         act |-> Obj([items |-> List(<<ItemA>>)])])

\* a continuation page: items only
DocB == Obj([act |-> Obj([items |-> List(<<ItemB, S("subtotal")>>)])])

\* an act item whose description names a site and an order with the
\* keywords for site and numero, and whose cost is written with a space as
\* thousands separator ("1 234 <rouble>")
ItemC ==
    Obj([quantity |-> PyInt(2),
         total_cost |-> Str(<<"1", " ", "2", "3", "4", " ", RoubleSign>>),
         service_description |->
             Str(<<SiteKw, ":", " ", "B", ",", " ", NumeroSign, " ", "7">>)])

\* an act item whose cost is written with a decimal comma ("100,50 <rouble>")
ItemD ==
    Obj([quantity |-> Str(<<"1", ",", "5">>),
         total_cost |-> Str(<<"1", "0", "0", ",", "5", "0", " ", RoubleSign>>)])

\* a page of another document: its own document type, no customer
DocC ==
    Obj([document_type |-> S("KS-2"),
         act |-> Obj([items |-> List(<<ItemC, ItemD>>)])])

\* a page that carries a contractor only: no document type, no act
DocD == Obj([contractor |-> S("ZTE")])

\* the JSON values that are neither object nor array: a number, a string, a
\* boolean, null
SampleScalars == {PyInt(1), S("ok"), Bool(TRUE), Null}

\* response.content of a completed llm.invoke
Responses ==
    {<<Doc(DocA)>>,
     <<Tok("junk"), Tok("ws"), Tok("fence_json"), Doc(DocB), Tok("fence")>>,
     <<Tok("junk")>>,
     <<Doc(SampleArray)>>}
        \cup {<<Doc(v)>> : v \in SampleScalars}

(***************************************************************************)
(* aggregate_page_results on every page_results of bounded length          *)
(***************************************************************************)
\* a page as process_with_chatgpt_node appends it: a parsed response tagged
\* success, or a failed page
SuccessPage(result, n) ==
    Put(Put(result, "page_number", PyInt(n)), "page_processing_status", S("success"))

FailedPage(n, message) ==
    Obj([page_number |-> PyInt(n),
         page_processing_status |-> S("failed"),
         error |-> S(message)])

PageKinds == {"A", "B", "C", "D", "sentinel", "failed"}

PageOfKind(kind, n) ==
    CASE kind = "A" -> SuccessPage(DocA, n)
      [] kind = "B" -> SuccessPage(DocB, n)
      [] kind = "C" -> SuccessPage(DocC, n)
      [] kind = "D" -> SuccessPage(DocD, n)
      [] kind = "sentinel" -> SuccessPage(ParseSentinel(<<Tok("junk")>>), n)
      [] kind = "failed" -> FailedPage(n, "LLM call failed")

\* the page_results of at most MaxAggPages pages
AggInputs ==
    {[n \in 1..Len(kinds) |-> PageOfKind(kinds[n], n)] :
        kinds \in SeqsUpTo(PageKinds, MaxAggPages)}

AggInit ==
    /\ agg_pages \in AggInputs
    /\ aggregated = Null
    /\ agg_pc = "call"
    /\ ParseIdle /\ NumIdle /\ ValIdle /\ PostIdle /\ DocIdle

AggCall ==
    /\ agg_pc = "call"
    /\ aggregated' = aggregate_page_results(agg_pages)
    /\ agg_pc' = "returned"
    /\ UNCHANGED <<agg_pages, parseVars, numVars, valVars, postVars, docVars>>

SpecAgg == AggInit /\ [][AggCall]_vars

(***************************************************************************)
(* process_document: extract_content -> process_with_chatgpt ->            *)
(* validate_result -> END                                                  *)
(***************************************************************************)
\* a key the caller left out of the configuration bundle
Absent == [k |-> "absent"]

\* the dict with the keys of f whose value is not Absent
DictOf(f) == Obj([key \in {x \in DOMAIN f : f[x] # Absent} |-> f[key]])

\* the configuration bundles: None, or a dict with or without each key
Bundles ==
    {Null} \cup
    {DictOf([processing_mode |-> m, verification_enabled |-> v,
             required_fields |-> r]) :
        m \in {Absent, S("TEXT_EXTRACTION"), S("IMAGE_OCR"), S("OCR")},
        v \in {Absent, Bool(TRUE), Bool(FALSE)},
        r \in {Absent, Null, List(<<S("customer"), S("act")>>)}}

\* the PDFs: one fitz cannot open or render, and the readable ones with their
\* page count and the pages that carry text
Pdfs ==
    {[readable |-> FALSE, page_count |-> 0, text_pages |-> {}]} \cup
    {[readable |-> TRUE, page_count |-> n, text_pages |-> t] :
        n \in 0..MaxPages, t \in {{}, {1}} }

\* the outcome of one llm.invoke: it raises, or it returns a response
LlmOutcomes ==
    {[fails |-> TRUE, content |-> <<>>]}
        \cup {[fails |-> FALSE, content |-> r] : r \in Responses}

\* the processing mode the bundle selects
SelectsText(bundle) ==
    IsDict(bundle)
        /\ Get(bundle, "processing_mode", S("IMAGE_OCR")) = S("TEXT_EXTRACTION")

\* the number of llm.invoke calls a run can reach: one per page in image
\* mode, one for the document in text mode
CallsOf(pdf, bundle) ==
    IF ~pdf.readable \/ ~IsDict(bundle) THEN 0
    ELSE IF SelectsText(bundle) THEN (IF pdf.text_pages = {} THEN 0 ELSE 1)
    ELSE pdf.page_count

DocInit ==
    /\ file_content \in {f \in Pdfs : f.text_pages \subseteq 1..f.page_count}
    /\ file_type_prompts \in Bundles
    /\ client_ok \in BOOLEAN
    /\ llm_calls \in [1..CallsOf(file_content, file_type_prompts) -> LlmOutcomes]
    /\ InitialState
    /\ pc = "extract_content"
    /\ output = Null
    /\ ParseIdle /\ NumIdle /\ AggIdle /\ ValIdle /\ PostIdle

\* pdf_to_text(file_content): the page markers of the pages with text
pdf_to_text(pdf) ==
    LET HasText(i) == i \in pdf.text_pages
    IN  SelectSeq([i \in 1..pdf.page_count |-> i], HasText)

\* the mode stored as the bundle writes it
ExtractedMode_Verbatim(bundle) ==
    LET mode == Get(bundle, "processing_mode", S("IMAGE_OCR"))
    IN  IF mode.k = "str" THEN mode.s[1] ELSE "IMAGE_OCR"

\* state["processing_mode"] as extract_content_node sets it from the bundle
ExtractedMode(bundle) ==
    IF Get(bundle, "processing_mode", S("IMAGE_OCR")) = S("TEXT_EXTRACTION")
    THEN "TEXT_EXTRACTION"
    ELSE "IMAGE_OCR"

\* extract_content_node
ExtractContent ==
    /\ pc = "extract_content"
    /\ pc' = "process_with_chatgpt"
    /\ IF error # ""
       THEN UNCHANGED stateVars
       ELSE IF ~IsDict(file_type_prompts)
       THEN /\ error' = "Content extraction failed: AttributeError"
            /\ UNCHANGED <<processing_result, page_results, current_page,
                           total_pages, processing_mode, verification_enabled,
                           extracted_text>>
       ELSE IF ExtractedMode(file_type_prompts) = "TEXT_EXTRACTION"
       THEN IF ~file_content.readable
            THEN /\ error' = "Content extraction failed: Failed to extract text from PDF"
                 /\ UNCHANGED <<processing_result, page_results, current_page,
                                total_pages, processing_mode,
                                verification_enabled, extracted_text>>
            ELSE /\ extracted_text' = pdf_to_text(file_content)
                 /\ processing_mode' = "TEXT_EXTRACTION"
                 /\ verification_enabled' =
                        Truthy(Get(file_type_prompts, "verification_enabled",
                                   Bool(FALSE)))
                 /\ UNCHANGED <<processing_result, page_results, current_page,
                                total_pages, error>>
       ELSE /\ processing_mode' = ExtractedMode(file_type_prompts)
            /\ extracted_text' = <<>>
            /\ verification_enabled' =
                   Truthy(Get(file_type_prompts, "verification_enabled", Bool(FALSE)))
            /\ UNCHANGED <<processing_result, page_results, current_page,
                           total_pages, error>>
    /\ UNCHANGED <<inputVars, output, parseVars, numVars, aggVars, valVars, postVars>>

\* the text-mode result: the parsed response stamped with mode and status
TextResult(result) ==
    Put(Put(result, "processing_mode", S("TEXT_EXTRACTION")),
        "processing_status", S("success"))

\* process_with_chatgpt_node up to the page loop: the short circuit, the
\* construction of the client, the whole of text mode, the rasterization
ProcessEnter ==
    /\ pc = "process_with_chatgpt"
    /\ IF error # ""
          THEN /\ pc' = "validate_result"
               /\ UNCHANGED stateVars
          ELSE IF ~client_ok
          THEN /\ error' = "ChatGPT processing failed: client construction failed"
               /\ pc' = "validate_result"
               /\ UNCHANGED <<processing_result, page_results, current_page,
                              total_pages, processing_mode,
                              verification_enabled, extracted_text>>
          ELSE IF processing_mode = "TEXT_EXTRACTION"
          THEN /\ pc' = "validate_result"
               /\ IF extracted_text = <<>>
                  THEN /\ error' = "Text-based processing failed: No text extracted from PDF"
                       /\ UNCHANGED processing_result
                  ELSE IF llm_calls[1].fails
                  THEN /\ error' = "Text-based processing failed: LLM call failed"
                       /\ UNCHANGED processing_result
                  ELSE IF ~IsDict(parse_chatgpt_response(llm_calls[1].content))
                  THEN /\ error' = "Text-based processing failed: TypeError"
                       /\ UNCHANGED processing_result
                  ELSE /\ processing_result' =
                              TextResult(parse_chatgpt_response(llm_calls[1].content))
                       /\ UNCHANGED error
               /\ UNCHANGED <<page_results, current_page, total_pages,
                              processing_mode, verification_enabled,
                              extracted_text>>
          ELSE IF ~file_content.readable
          THEN /\ error' = "PDF to image conversion failed: Failed to convert PDF to images"
               /\ pc' = "validate_result"
               /\ UNCHANGED <<processing_result, page_results, current_page,
                              total_pages, processing_mode,
                              verification_enabled, extracted_text>>
          ELSE IF file_content.page_count = 0
          THEN /\ error' = "PDF to image conversion failed: No images generated from PDF"
               /\ pc' = "validate_result"
               /\ UNCHANGED <<processing_result, page_results, current_page,
                              total_pages, processing_mode,
                              verification_enabled, extracted_text>>
          ELSE /\ total_pages' = file_content.page_count
               /\ page_results' = <<>>
               /\ pc' = "process_page"
               /\ UNCHANGED <<processing_result, current_page, error,
                              processing_mode, verification_enabled,
                              extracted_text>>
    /\ UNCHANGED <<inputVars, output, parseVars, numVars, aggVars, valVars, postVars>>

\* the loop body stamping whatever JSON value the response holds as a
\* successful page
PageEntry_AnyJson(n, outcome) ==
    IF outcome.fails THEN FailedPage(n, "LLM call failed")
    ELSE IF ~IsDict(parse_chatgpt_response(outcome.content))
    THEN SuccessPage(EmptyDict, n)
    ELSE SuccessPage(parse_chatgpt_response(outcome.content), n)

\* the except branch tagging the failed page with the loop index page_idx
PageEntry_ZeroBased(n, outcome) ==
    IF outcome.fails THEN FailedPage(n - 1, "LLM call failed")
    ELSE IF ~IsDict(parse_chatgpt_response(outcome.content))
    THEN FailedPage(n - 1, "TypeError")
    ELSE SuccessPage(parse_chatgpt_response(outcome.content), n)

\* the entry the page loop makes for page n: the parsed response stamped
\* with page_number and success, or, when the call or the stamping raised,
\* the failed page
PageEntry(n, outcome) ==
    IF outcome.fails THEN FailedPage(n, "LLM call failed")
    ELSE IF ~IsDict(parse_chatgpt_response(outcome.content))
    THEN FailedPage(n, "TypeError")
    ELSE SuccessPage(parse_chatgpt_response(outcome.content), n)

\* the loop body without the append of its except branch
PageLoopBody_DropFailed(results, n, outcome) ==
    IF outcome.fails THEN results ELSE Append(results, PageEntry(n, outcome))

\* state["page_results"] after the loop body ran for page n
PageLoopBody(results, n, outcome) == Append(results, PageEntry(n, outcome))

\* an iteration that puts the entry of its page in front of the earlier ones
ProcessPage_Prepend ==
    /\ pc = "process_page"
    /\ current_page < total_pages
    /\ current_page' = current_page + 1
    /\ page_results' =
           <<PageEntry(current_page + 1, llm_calls[current_page + 1])>>
               \o page_results
    /\ UNCHANGED <<processing_result, total_pages, error, processing_mode,
                   verification_enabled, extracted_text, pc>>
    /\ UNCHANGED <<inputVars, output, parseVars, numVars, aggVars, valVars, postVars>>

\* one iteration of the page loop of process_with_chatgpt_node
ProcessPage ==
    /\ pc = "process_page"
    /\ current_page < total_pages
    /\ current_page' = current_page + 1
    /\ page_results' =
           PageLoopBody(page_results, current_page + 1, llm_calls[current_page + 1])
    /\ UNCHANGED <<processing_result, total_pages, error, processing_mode,
                   verification_enabled, extracted_text, pc>>
    /\ UNCHANGED <<inputVars, output, parseVars, numVars, aggVars, valVars, postVars>>

\* the end of process_with_chatgpt_node in image mode: the aggregation
ProcessAggregate ==
    /\ pc = "process_page"
    /\ current_page = total_pages
    /\ pc' = "validate_result"
    /\ IF page_results # <<>>
       THEN /\ processing_result' =
                   Put(aggregate_page_results(page_results),
                       "processing_mode", S("IMAGE_OCR"))
            /\ UNCHANGED error
       ELSE /\ error' = "No pages were successfully processed"
            /\ UNCHANGED processing_result
    /\ UNCHANGED <<page_results, current_page, total_pages, processing_mode,
                   verification_enabled, extracted_text>>
    /\ UNCHANGED <<inputVars, output, parseVars, numVars, aggVars, valVars, postVars>>

\* validate_result_node without its short circuit
ValidateSkips_Never == FALSE

\* the short circuit of validate_result_node
ValidateSkips == error # ""

\* validate_result_node; with required_fields that cannot be iterated the
\* for statement raises TypeError, which nothing catches
ValidateResult ==
    /\ pc = "validate_result"
    /\ IF ValidateSkips
       THEN /\ pc' = "return"
            /\ UNCHANGED stateVars
       ELSE IF ~Truthy(processing_result)
       THEN /\ error' = "No processing result generated"
            /\ pc' = "return"
            /\ UNCHANGED <<processing_result, page_results, current_page,
                           total_pages, processing_mode, verification_enabled,
                           extracted_text>>
       ELSE IF Get(file_type_prompts, "required_fields", List(<<>>)).k # "list"
       THEN /\ pc' = "raised"
            /\ UNCHANGED stateVars
       ELSE /\ processing_result' =
                   Validated(processing_result,
                             Get(file_type_prompts, "required_fields", List(<<>>)).l,
                             verification_enabled)
            /\ pc' = "return"
            /\ UNCHANGED <<page_results, current_page, total_pages, error,
                           processing_mode, verification_enabled, extracted_text>>
    /\ UNCHANGED <<inputVars, output, parseVars, numVars, aggVars, valVars, postVars>>

\* the value process_document returns for a final state
FinalOutput(final_error, final_result) ==
    IF final_error # "" THEN Obj([error |-> S(final_error)]) ELSE final_result

\* the end of process_document: the final state reduced to the return value
Return ==
    /\ pc = "return"
    /\ output' = FinalOutput(error, processing_result)
    /\ pc' = "done"
    /\ UNCHANGED <<inputVars, stateVars, parseVars, numVars, aggVars, valVars,
                   postVars>>

Next ==
    \/ ExtractContent
    \/ ProcessEnter
    \/ ProcessPage
    \/ ProcessAggregate
    \/ ValidateResult
    \/ Return

Spec == DocInit /\ [][Next]_vars

(***************************************************************************)
(* validate_result_node on results and required_fields of bounded size     *)
(***************************************************************************)
\* an act item whose three numeric fields are valid numbers
ItemValid ==
    Obj([quantity |-> PyInt(1),
         unit_price |-> Str(<<"1", ",", "5">>),
         total_cost |-> Str(<<"2", ".", "5">>)])

\* a complete document whose act carries a total that is no number
DocComplete ==
    Obj([customer |-> S("Huawei"),
         contract |-> S("K-7"),
         act |-> Obj([items |-> List(<<ItemValid>>),
                      total |-> Obj([total_cost |-> Str(<<"a", "b", "c">>)])])])

\* the non-empty processing_result the LLM stage can leave: text-mode results
\* and the image-mode result of one page
ValResults ==
    {TextResult(DocA), TextResult(DocB), TextResult(DocComplete),
     TextResult(ParseSentinel(<<Tok("junk")>>)),
     TextResult(Obj([act |-> Null])),
     Put(aggregate_page_results(<<PageOfKind("A", 1)>>),
         "processing_mode", S("IMAGE_OCR"))}

FieldNames == {S("customer"), S("contract"), S("act")}

\* the required_fields of a bundle: a list of field names, or JSON null
RequiredFields == {List(l) : l \in SeqsUpTo(FieldNames, MaxFields)} \cup {Null}

ValInit ==
    /\ val_result \in ValResults
    /\ val_fields \in RequiredFields
    /\ val_verification \in BOOLEAN
    /\ validated = Null
    /\ val_pc = "call"
    /\ ParseIdle /\ NumIdle /\ AggIdle /\ PostIdle /\ DocIdle

\* validate_result_node on a state without error and with a result; with
\* required_fields that cannot be iterated the for statement raises TypeError
ValidateCall ==
    /\ val_pc = "call"
    /\ validated' = IF val_fields.k # "list" THEN Raised
                    ELSE Validated(val_result, val_fields.l, val_verification)
    /\ val_pc' = "returned"
    /\ UNCHANGED <<val_result, val_fields, val_verification, parseVars, numVars,
                   aggVars, postVars, docVars>>

SpecValidate == ValInit /\ [][ValidateCall]_vars

(***************************************************************************)
(* HuaweiProcessor.process_result on aggregated and single-page results    *)
(***************************************************************************)
\* results of the Aggregator
AggregatedResults == {aggregate_page_results(pages) : pages \in AggInputs}

\* aggregated results whose aggregated_data lacks act or items, or carries
\* them with a wrong shape
MalformedAggregated ==
    {Obj([page_results |-> List(<<>>), aggregated_data |-> d]) :
        d \in {EmptyDict,
                Obj([act |-> EmptyDict]),
                Obj([act |-> Null]),
                Obj([act |-> List(<<>>)]),
                Obj([act |-> Obj([items |-> Null])]),
                Obj([act |-> Obj([items |-> List(<<S("subtotal")>>)])]),
                Obj([act |-> Obj([items |-> List(<<List(<<>>)>>)])])}}

\* single-page results: well formed, without act or items, or with act or
\* items of a wrong shape
SinglePageResults ==
    {DocA, DocB, DocComplete, EmptyDict, ParseSentinel(<<Tok("junk")>>),
     Obj([act |-> EmptyDict]),
     Obj([act |-> Null]),
     Obj([act |-> S("n/a")]),
     Obj([act |-> Obj([items |-> Null])]),
     Obj([act |-> Obj([items |-> List(<<>>), totals |-> Null])]),
     Obj([act |-> Obj([items |-> List(<<ItemValid>>),
                       totals |-> Obj([total_cost |-> Str(<<"1", "2">>)])])])}

PostInit ==
    /\ post_result \in AggregatedResults \cup MalformedAggregated
                           \cup SinglePageResults
    /\ processed = Null
    /\ post_pc = "call"
    /\ ParseIdle /\ NumIdle /\ AggIdle /\ ValIdle /\ DocIdle

PostCall ==
    /\ post_pc = "call"
    /\ processed' = process_result(post_result)
    /\ post_pc' = "returned"
    /\ UNCHANGED <<post_result, parseVars, numVars, aggVars, valVars, docVars>>

SpecPost == PostInit /\ [][PostCall]_vars

(***************************************************************************)
(* Claims                                                                  *)
(***************************************************************************)
\* the positions of a run after process_with_chatgpt_node returned
AfterLlmStage == {"validate_result", "return", "done", "raised"}

\* the run is in image mode and reached the page loop: the bundle is a dict
\* that does not select text mode, the client was constructed and the PDF was
\* rasterized into its N >= 1 pages
PagesRasterized ==
    /\ IsDict(file_type_prompts) /\ ~SelectsText(file_type_prompts)
    /\ client_ok
    /\ file_content.readable /\ file_content.page_count >= 1

\* the run is in text mode and reached its single LLM call
TextCallMade ==
    /\ SelectsText(file_type_prompts)
    /\ client_ok
    /\ file_content.readable /\ file_content.text_pages # {}

\* C1: once the state's error is non-empty, process_with_chatgpt_node and
\* validate_result_node are no-ops: the error keeps the message first written
\* and processing_result is the one the stage found (with the rest of the
\* state).
C1_ErrorShortCircuits ==
    [][(error # "" /\ pc \in {"process_with_chatgpt", "validate_result"})
          => (error' = error /\ processing_result' = processing_result
              /\ stateVars' = stateVars)]_vars

\* an extraction error has passed through both later stages unchanged
C1_Witness ==
    /\ pc = "return"
    /\ error = "Content extraction failed: Failed to extract text from PDF"
    /\ processing_result = EmptyDict

\* a call of process_document has ended: it returned, or it raised
Terminated == pc \in {"done", "raised"}

\* C2: for every input process_document returns {error} when the final
\* state's error is set and otherwise processing_result as the validator left
\* it.
C2_ReturnsErrorOrResult ==
    Terminated =>
        /\ IsDict(output)
        /\ error # "" => output = Obj([error |-> S(error)])
        /\ error = "" => /\ output = processing_result
                         /\ Has(output, "verification_performed")

\* C3: for every PDF with N >= 1 pages processed in IMAGE_OCR mode, after the
\* LLM stage total_pages = N and page_results has exactly N entries, whatever
\* subset of the N per-page LLM calls fails.
C3_AllPagesRecorded ==
    (pc \in AfterLlmStage /\ PagesRasterized) =>
        /\ total_pages = file_content.page_count
        /\ Len(page_results) = file_content.page_count

\* both calls of a two-page PDF failed
C3_Witness ==
    /\ pc = "validate_result" /\ PagesRasterized
    /\ file_content.page_count = 2
    /\ \A i \in 1..2 : llm_calls[i].fails
    /\ Len(page_results) = 2

\* the integer of a Python int of the result
IntValue(v) == v.n.m

\* the equation of C4 on an aggregated result
PageCountsAddUp(result) ==
    /\ Has(result, "pages_processed") /\ Has(result, "total_pages")
    /\ Has(result, "processing_summary")
    /\ Has(result.o["processing_summary"], "pages_with_errors")
    /\ IntValue(result.o["pages_processed"])
           + IntValue(result.o["processing_summary"].o["pages_with_errors"])
       = IntValue(result.o["total_pages"])

\* C4 as stated: for every sequence page_results the result of
\* aggregate_page_results satisfies pages_processed + pages_with_errors =
\* total_pages.
C4_CountsAddUpAlways == agg_pc = "returned" => PageCountsAddUp(aggregated)

\* C4 as amended: for every page_results with at least one successful page
\* the result satisfies pages_processed + pages_with_errors = total_pages.
C4_CountsAddUpOnSuccess ==
    (agg_pc = "returned" /\ \E i \in 1..Len(agg_pages) : IsSuccess(agg_pages[i]))
        => PageCountsAddUp(aggregated)

\* an aggregated result built from successful and failed pages
C4_Witness ==
    /\ agg_pc = "returned"
    /\ \E i \in 1..Len(agg_pages) : IsSuccess(agg_pages[i])
    /\ \E i \in 1..Len(agg_pages) : ~IsSuccess(agg_pages[i])
    /\ IntValue(aggregated.o["processing_summary"].o["pages_with_errors"]) >= 1

\* C5: in IMAGE_OCR mode a failed LLM call for page i only appends
\* {page_number: i, failed, error}: the later pages are still processed and
\* the state's error stays empty; in TEXT_EXTRACTION mode the failure of the
\* single call sets the state's error and leaves no processing_result.
C5_FailureIsolation ==
    /\ (pc \in AfterLlmStage /\ PagesRasterized) =>
          /\ error = ""
          /\ \A i \in 1..file_content.page_count :
                /\ i <= Len(page_results)
                /\ llm_calls[i].fails =>
                      page_results[i] = FailedPage(i, "LLM call failed")
                /\ (~llm_calls[i].fails
                       /\ IsDict(parse_chatgpt_response(llm_calls[i].content))) =>
                      /\ IsSuccess(page_results[i])
                      /\ page_results[i].o["page_number"] = PyInt(i)
    /\ (pc \in AfterLlmStage /\ TextCallMade /\ llm_calls[1].fails) =>
          /\ error = "Text-based processing failed: LLM call failed"
          /\ processing_result = EmptyDict

\* page 1 failed, page 2 was processed all the same
C5_Witness ==
    /\ pc = "validate_result" /\ PagesRasterized
    /\ file_content.page_count = 2
    /\ llm_calls[1].fails /\ ~llm_calls[2].fails
    /\ IsSuccess(page_results[2])
    /\ error = ""

\* C6: no fault raised inside extract_content, process_with_chatgpt or
\* validate_result escapes: process_document never propagates an exception
\* and always returns a mapping.
C6_NoFaultEscapes ==
    /\ pc # "raised"
    /\ pc = "done" => IsDict(output)

\* C10: for every page_results without a successful entry (the empty
\* sequence included) aggregate_page_results returns the mapping with error
\* "No pages were successfully processed", page_results echoed and
\* pages_processed = 0.
C10_ZeroSuccessMapping ==
    (agg_pc = "returned" /\ \A i \in 1..Len(agg_pages) : ~IsSuccess(agg_pages[i]))
        => /\ DOMAIN aggregated.o = {"error", "page_results", "pages_processed"}
           /\ aggregated.o["error"] = S("No pages were successfully processed")
           /\ aggregated.o["page_results"] = List(agg_pages)
           /\ aggregated.o["pages_processed"] = PyInt(0)

\* two failed pages were aggregated
C10_Witness ==
    /\ agg_pc = "returned"
    /\ Len(agg_pages) = 2
    /\ \A i \in 1..2 : ~IsSuccess(agg_pages[i])
    /\ aggregated.o["pages_processed"] = PyInt(0)

IsSentinel(v) == IsDict(v) /\ Has(v, "parsing_error") /\ Has(v, "raw_response")

\* C7: for every string input parse_chatgpt_response returns a mapping (a
\* JSON object): the parsed object or the sentinel {raw_response,
\* parsing_error}; never a list, number, string, boolean or null.
C7_ParserReturnsMapping == parse_pc = "returned" => IsDict(parsed)

\* The four strategies of the response parser, each applied to the text on
\* its own: the whole text; the interior of the ```json fenced block; the
\* interior of the generic ``` fenced block; the first greedy brace span.
Strategy1(text) == json_loads(text)

Strategy2(text) ==
    LET c == Strip(text, WsTokens)
    IN  IF Contains(c, JsonFence) THEN FencedBlock(c, JsonFence) ELSE Fail

Strategy3(text) ==
    LET c == Strip(text, WsTokens)
        first == Find(c, AnyFence, 1)
    IN  IF first = 0 THEN Fail
        ELSE IF c[first].t \in JsonFence
        \* the interior starts with the word json: no JSON text does
        THEN Fail
        ELSE FencedBlock(c, AnyFence)

Strategy4(text) ==
    LET c == Strip(text, WsTokens)
    IN  IF BraceSpan(c) # <<>> THEN json_loads(BraceSpan(c)) ELSE Fail

\* the result of the first strategy that succeeds, Fail when none does
FirstSuccess(text) ==
    IF Strategy1(text) # Fail THEN Strategy1(text)
    ELSE IF Strategy2(text) # Fail THEN Strategy2(text)
    ELSE IF Strategy3(text) # Fail THEN Strategy3(text)
    ELSE Strategy4(text)

\* C8: parse_chatgpt_response returns the result of the first of the four
\* strategies (in strict order) that succeeds on the text, and the
\* parsing-error sentinel only when every one of the four fails.
C8_StrictOrderFirstSuccess ==
    parse_pc = "returned" =>
        /\ FirstSuccess(content) # Fail => parsed = FirstSuccess(content)
        /\ FirstSuccess(content) = Fail => IsSentinel(parsed)

\* the number a locale-formatted string denotes: digits, spaces as thousands
\* separators, at most one comma as the decimal separator, currency markers
IsLocaleNumber(s) ==
    /\ \A i \in 1..Len(s) : IsDigit(s[i]) \/ s[i] \in {" ", ",", RoubleSign, Rub}
    /\ Cardinality({i \in 1..Len(s) : s[i] = ","}) <= 1
    /\ \A i \in 1..Len(s) :
          s[i] = "," => /\ i > 1 /\ i < Len(s)
                        /\ IsDigit(s[i - 1]) /\ IsDigit(s[i + 1])
    /\ \E i \in 1..Len(s) : IsDigit(s[i])

Denoted(s) ==
    float_of_str(Replace(Remove(Remove(Remove(s, " "), RoubleSign), Rub), ",", "."))

\* C9: numeric extraction is locale-tolerant and total: a string with space
\* thousands separators, a comma decimal separator and a currency symbol
\* gives the number it denotes ("1 234,56 <rouble>" gives 1234.56); a string
\* with no numeric content and None give 0.0.
C9_LocaleTolerantTotal ==
    num_pc = "returned" =>
        /\ value_str = Str(LocaleExample) => numeric = DecNorm(123456, 2)
        /\ (value_str.k = "str" /\ IsLocaleNumber(value_str.s))
              => numeric = Denoted(value_str.s)
        /\ value_str = Str(NotANumber) => numeric = Zero
        /\ value_str = Null => numeric = Zero

\* the mode the bundle asks for: text for the value TEXT_EXTRACTION, image
\* for every other value and for a bundle without the key
ModeAsked == IF SelectsText(file_type_prompts) THEN "TEXT_EXTRACTION" ELSE "IMAGE_OCR"

\* C11: the processing mode is taken from the bundle: TEXT_EXTRACTION selects
\* text mode; every other value and a missing processing_mode key make
\* extraction and the LLM stage proceed as IMAGE_OCR (no text is extracted,
\* the pages are processed one by one), and the result is stamped with the
\* mode that was selected.
C11_ModeFromBundle ==
    (IsDict(file_type_prompts) /\ pc # "extract_content") =>
        /\ error = "" => processing_mode = ModeAsked
        /\ (pc \in AfterLlmStage /\ processing_result # EmptyDict) =>
              processing_result.o["processing_mode"] = S(ModeAsked)
        /\ ModeAsked = "IMAGE_OCR" =>
              /\ extracted_text = <<>>
              /\ (pc \in AfterLlmStage /\ processing_result # EmptyDict) =>
                    Has(processing_result, "page_results")
        /\ (ModeAsked = "TEXT_EXTRACTION" /\ processing_result # EmptyDict) =>
              /\ page_results = <<>>
              /\ ~Has(processing_result, "page_results")

\* a bundle with the unrecognized mode OCR was processed page by page
C11_Witness ==
    /\ pc = "done"
    /\ IsDict(file_type_prompts)
    /\ Get(file_type_prompts, "processing_mode", Null) = S("OCR")
    /\ Has(output, "processing_mode")
    /\ output.o["processing_mode"] = S("IMAGE_OCR")
    /\ Len(page_results) >= 1

\* the validation_errors the validator stored, empty when it stored none
StoredErrors(result) ==
    IF Has(result, "validation_errors") THEN result.o["validation_errors"].l
    ELSE <<>>

\* "Missing required field: f" for each f of fields absent from result, in
\* the order of fields
RECURSIVE ExpectedMissing(_, _)
ExpectedMissing(result, fields) ==
    IF fields = <<>> THEN <<>>
    ELSE (IF Head(fields).s[1] \in DOMAIN result.o THEN <<>>
          ELSE <<Str(<<"Missing required field: ", Head(fields).s[1]>>)>>)
             \o ExpectedMissing(result, Tail(fields))

\* C12: with verification disabled validation_errors is exactly the sequence
\* of "Missing required field: f" for each f of required_fields absent from
\* the top-level result, in required_fields order, with nothing for the
\* fields that are present (no validation_errors key is stored when the
\* sequence is empty); [customer, contract] on a result missing only contract
\* gives ["Missing required field: contract"].
C12_MissingFieldsExactly ==
    (val_pc = "returned" /\ ~val_verification /\ val_fields.k = "list") =>
        /\ StoredErrors(validated) = ExpectedMissing(val_result, val_fields.l)
        /\ Has(validated, "validation_errors") <=>
               ExpectedMissing(val_result, val_fields.l) # <<>>
        /\ (val_result = TextResult(DocA)
               /\ val_fields = List(<<S("customer"), S("contract")>>)) =>
              StoredErrors(validated)
                  = <<Str(<<"Missing required field: ", "contract">>)>>

\* [customer, contract] was validated on a result missing only contract
C12_Witness ==
    /\ val_pc = "returned" /\ ~val_verification
    /\ val_result = TextResult(DocA)
    /\ val_fields = List(<<S("customer"), S("contract")>>)
    /\ Len(StoredErrors(validated)) = 1

\* the items of the top-level act of a result
ActItems(result) ==
    IF /\ Has(result, "act") /\ IsDict(result.o["act"])
       /\ Has(result.o["act"], "items") /\ result.o["act"].o["items"].k = "list"
    THEN result.o["act"].o["items"].l
    ELSE <<>>

\* the pairs of item index and field whose value is not a valid number
InvalidFields(result) ==
    {p \in (1..Len(ActItems(result))) \X {"quantity", "unit_price", "total_cost"} :
        /\ IsDict(ActItems(result)[p[1]])
        /\ Has(ActItems(result)[p[1]], p[2])
        /\ ~is_valid_number(ActItems(result)[p[1]].o[p[2]])}

\* the message is a verification error of an act item
IsItemError(msg) == msg.s[1] = "Item "

\* the message names the item index i and the field
NamesItemField(msg, i, field) ==
    /\ Len(msg.s) >= 4 /\ IsItemError(msg)
    /\ msg.s[2] = ToString(i) /\ msg.s[4] = field

\* the validator completed and left the verification as C13 describes it
VerificationDone(result, found, verification) ==
    LET errors == StoredErrors(found)
        item_errors == {j \in 1..Len(errors) : IsItemError(errors[j])}
    IN  /\ Has(found, "verification_performed")
        /\ found.o["verification_performed"] = Bool(verification)
        /\ verification =>
              /\ \A p \in InvalidFields(result) :
                    \E j \in item_errors : NamesItemField(errors[j], p[1], p[2])
              /\ Cardinality(item_errors) = Cardinality(InvalidFields(result))
        /\ ~verification => item_errors = {}

\* C13: whenever the validator runs on a non-empty result it stamps
\* verification_performed = verification_enabled, errors or not; with
\* verification enabled every act item field among quantity, unit_price,
\* total_cost whose value is not a valid number adds one verification error
\* naming the item's index and the field (total_cost = "abc" does), and with
\* verification disabled no such error is added.
C13_VerificationStamped ==
    val_pc = "returned" =>
        /\ validated # Raised
        /\ VerificationDone(val_result, validated, val_verification)

\* the post-processor was given a result of the Aggregator with at least one
\* successful page
PostProcessedAggregate ==
    /\ post_pc = "returned"
    /\ post_result \in AggregatedResults
    /\ Has(post_result, "aggregated_data")

\* act.totals of the aggregated_data of a result
TotalsOf(result) == result.o["aggregated_data"].o["act"].o["totals"]

\* C14: the post-processor derives numbers from the line items with the same
\* algorithm as the Aggregator: for every aggregated result of
\* aggregate_page_results, process_result leaves act.totals.total_quantity
\* and act.totals.total_cost equal to the values the Aggregator computed from
\* the same items (quantity "2,5", total_cost "1 234 <rouble>").
C14_SameTotals ==
    PostProcessedAggregate =>
        /\ processed # Raised
        /\ TotalsOf(processed).o["total_quantity"]
               = TotalsOf(post_result).o["total_quantity"]
        /\ TotalsOf(processed).o["total_cost"]
               = TotalsOf(post_result).o["total_cost"]

\* C15: for every aggregated result of aggregate_page_results the
\* processing_stats block added by process_result agrees with the
\* Aggregator's processing_summary: pages_processed =
\* pages_successfully_processed, total_act_items = total_act_items_found,
\* unique_sites = unique_sites_found, unique_order_numbers =
\* unique_order_numbers_found.
C15_StatsConsistent ==
    PostProcessedAggregate =>
        /\ processed # Raised
        /\ LET stats == processed.o["processing_stats"].o
               summary == post_result.o["processing_summary"].o
           IN  /\ stats["pages_processed"] = summary["pages_successfully_processed"]
               /\ stats["total_act_items"] = summary["total_act_items_found"]
               /\ stats["unique_sites"] = summary["unique_sites_found"]
               /\ stats["unique_order_numbers"]
                      = summary["unique_order_numbers_found"]

\* C16: process_result never raises on a missing or malformed nested
\* structure: for every result mapping, aggregated or single-page, in which
\* act or act.items is absent or has a wrong shape (act not a mapping, items
\* not a list, an item that is not a mapping) the branch is skipped and a
\* result is returned.
C16_ToleratesMalformed ==
    post_pc = "returned" => (processed # Raised /\ IsDict(processed))

\* C17: within one document the per-page LLM calls are issued strictly in
\* page order 1..N, one at a time: when the call for page i+1 is due the
\* results of the pages 1..i, success or failed, have been appended, and the
\* i-th entry of page_results is the outcome of the i-th call and has
\* page_number = i.
C17_PagesInOrder ==
    /\ pc = "process_page" => Len(page_results) = current_page
    /\ \A i \in 1..Len(page_results) :
          /\ page_results[i].o["page_number"] = PyInt(i)
          /\ IsSuccess(page_results[i]) <=>
                 (~llm_calls[i].fails
                     /\ IsDict(parse_chatgpt_response(llm_calls[i].content)))

\* page 1 of two has been appended and the call for page 2 is due
C17_Witness ==
    /\ pc = "process_page" /\ total_pages = 2 /\ current_page = 1
    /\ Len(page_results) = 1
    /\ page_results[1].o["page_number"] = PyInt(1)

\* the quantity an item contributes: its value with a comma read as the
\* decimal separator, nothing (ValueError) when that is no number
ContributedQuantity(v) ==
    CASE v.k = "num" -> v.n
      [] v.k = "str" -> float_of_str(Replace(v.s, ",", "."))
      [] OTHER -> ValueError

\* the cost an item contributes: its value without currency markers and
\* thousands separators and with the decimal comma read as a point, nothing
\* (ValueError) when that is no number
ContributedCost(v) ==
    CASE v.k = "num" -> v.n
      [] v.k = "str" -> Denoted(v.s)
      [] OTHER -> ValueError

\* the sum of the contributions of the field key over the items
ContributedSum(items, key) ==
    SumFloats([i \in 1..Len(items) |->
                  IF ~Has(items[i], key) THEN ValueError
                  ELSE IF key = "quantity" THEN ContributedQuantity(items[i].o[key])
                  ELSE ContributedCost(items[i].o[key])])

\* the quantity half of C18
QuantityTotalAsStated(result) ==
    TotalsOf(result).o["total_quantity"]
        = Num(ContributedSum(result.o["aggregated_data"].o["act"].o["items"].l,
                             "quantity"))

\* C18: total_quantity is the sum over all merged items of quantity with a
\* comma read as the decimal separator, and total_cost the sum of total_cost
\* after stripping currency symbols and thousands separators and normalizing
\* the decimal separator ("100,50 <rouble>" contributes 100.5 and
\* "1 234 <rouble>" contributes 1234); an item whose field cannot be parsed
\* is skipped and leaves the other contributions as they are.
C18_AggregatorTotals ==
    (agg_pc = "returned" /\ Has(aggregated, "aggregated_data")) =>
        /\ QuantityTotalAsStated(aggregated)
        /\ TotalsOf(aggregated).o["total_cost"]
               = Num(ContributedSum(
                         aggregated.o["aggregated_data"].o["act"].o["items"].l,
                         "total_cost"))

\* page i is a successful page without parsing error that has document_type
CompletePage(pages, i) ==
    /\ IsSuccess(pages[i])
    /\ ~Truthy(Get(pages[i], "parsing_error", Null))
    /\ Has(pages[i], "document_type")

\* page i is the page the metadata is to be taken from: the first complete
\* page, or the first successful page when no page is complete
CanonicalPage(pages, i) ==
    IF \E j \in 1..Len(pages) : CompletePage(pages, j)
    THEN CompletePage(pages, i)
         /\ \A j \in 1..(i - 1) : ~CompletePage(pages, j)
    ELSE IsSuccess(pages[i])
         /\ \A j \in 1..(i - 1) : ~IsSuccess(pages[j])

\* C19: the whitelisted keys of aggregated_data (document_type,
\* document_number, date_of_issue, customer, contractor, contract) are copied
\* from the first successful page, in page order, that has no parsing error
\* and contains document_type, or from the first successful page when there
\* is none; no other key and no value of another page is copied.
C19_CanonicalMetadata ==
    (agg_pc = "returned" /\ Has(aggregated, "aggregated_data")) =>
        LET aggregated_data == aggregated.o["aggregated_data"]
        IN  /\ DOMAIN aggregated_data.o
                   \subseteq MetadataKeys \cup {"act", "sites", "order_numbers"}
            /\ \A i \in 1..Len(agg_pages) :
                   CanonicalPage(agg_pages, i) =>
                       \A key \in MetadataKeys :
                           /\ Has(aggregated_data, key) <=> Has(agg_pages[i], key)
                           /\ Has(aggregated_data, key) =>
                                  aggregated_data.o[key] = agg_pages[i].o[key]

\* a call whose first successful page has a contractor and no document_type
\* and whose metadata comes from a later page that has no contractor
C19_Witness ==
    /\ agg_pc = "returned"
    /\ Has(aggregated, "aggregated_data")
    /\ \E i \in 1..Len(agg_pages) :
           /\ CanonicalPage(agg_pages, i)
           /\ \E j \in 1..(i - 1) :
                  IsSuccess(agg_pages[j]) /\ Has(agg_pages[j], "contractor")
    /\ Has(aggregated.o["aggregated_data"], "document_type")
    /\ ~Has(aggregated.o["aggregated_data"], "contractor")

\* the page loop of an image run has ended and no page succeeded
AllPagesFailed ==
    /\ pc \in {"validate_result", "return", "done", "raised"}
    /\ page_results # <<>>
    /\ \A i \in 1..Len(page_results) : ~IsSuccess(page_results[i])

\* result carries the entries of the zero-success mapping of the run
CarriesZeroSuccess(result) ==
    /\ IsDict(result)
    /\ Get(result, "error", Null) = S("No pages were successfully processed")
    /\ Get(result, "page_results", Null) = List(page_results)
    /\ Get(result, "pages_processed", Null) = PyInt(0)
    /\ Get(result, "processing_mode", Null) = S("IMAGE_OCR")

\* the run passed the validator and returned what the validator left
ReturnedValidated ==
    /\ CarriesZeroSuccess(output)
    /\ Get(output, "verification_performed", Null) = Bool(verification_enabled)
    /\ output # Obj([error |-> S("No pages were successfully processed")])
    /\ output = processing_result

\* C20: when every page of an IMAGE_OCR run fails the state's error is never
\* set, processing_result becomes the zero-success mapping, the validator
\* runs on it, and process_document returns a mapping with
\* error = "No pages were successfully processed", page_results,
\* pages_processed = 0, processing_mode and verification_performed, not the
\* one-key mapping {error}.
C20_AllFailedReturnsMapping ==
    AllPagesFailed =>
        /\ error = ""
        /\ CarriesZeroSuccess(processing_result)
        /\ pc \in {"return", "done"} =>
               Has(processing_result, "verification_performed")
        /\ Terminated => pc = "done" /\ ReturnedValidated

\* the page loop of an image run has ended and a page succeeded
SomePageSucceeded ==
    /\ pc \in {"validate_result", "return", "done", "raised"}
    /\ \E i \in 1..Len(page_results) : IsSuccess(page_results[i])

\* the top-level keys of the aggregated result of an image run
AggregatedKeys ==
    {"pages_processed", "total_pages", "page_results", "aggregated_data",
     "processing_summary", "processing_mode"}

\* a page extracted an item with a value that is no valid number
ExtractedInvalidItem(result) ==
    InvalidFields(result.o["aggregated_data"]) # {}

\* C21: in an IMAGE_OCR run with a successful page the validator looks at
\* the top level of the aggregated result only, whose keys are
\* pages_processed, total_pages, page_results, aggregated_data,
\* processing_summary and processing_mode: every required field with another
\* name is reported missing even when aggregated_data carries it, and
\* verification reports no invalid item value, the items being under
\* aggregated_data.act.
C21_TopLevelOnly ==
    SomePageSucceeded =>
        /\ DOMAIN processing_result.o
               \ {"validation_errors", "verification_performed"} = AggregatedKeys
        /\ \A j \in 1..Len(StoredErrors(processing_result)) :
               ~IsItemError(StoredErrors(processing_result)[j])
        /\ pc \in {"return", "done"} =>
               LET OtherName(field) == field.s[1] \notin AggregatedKeys
                   others ==
                       SelectSeq(
                           Get(file_type_prompts, "required_fields", List(<<>>)).l,
                           OtherName)
               IN  /\ StoredErrors(processing_result) =
                          [j \in 1..Len(others) |->
                              Str(<<"Missing required field: ", others[j].s[1]>>)]
                   /\ pc = "done" => output = processing_result

\* a returned image run with verification enabled whose required fields
\* customer and act are both in aggregated_data, with an item value that is
\* no valid number, and whose only errors are the two missing fields
C21_Witness ==
    /\ pc = "done"
    /\ SomePageSucceeded
    /\ verification_enabled
    /\ Has(output.o["aggregated_data"], "customer")
    /\ Has(output.o["aggregated_data"], "act")
    /\ ExtractedInvalidItem(output)
    /\ StoredErrors(output) =
           <<Str(<<"Missing required field: ", "customer">>),
             Str(<<"Missing required field: ", "act">>)>>

\* the call returned a response that is valid JSON and no JSON object
NonObject(outcome) ==
    /\ ~outcome.fails
    /\ json_loads(outcome.content) # Fail
    /\ ~IsDict(json_loads(outcome.content))

\* the text-mode call of the run was made and has returned
TextCallReturned ==
    /\ pc \in {"validate_result", "return", "done", "raised"}
    /\ TextCallMade

\* C22: an LLM response that is valid JSON but no JSON object (an array, a
\* number, a string, a boolean, null) makes its unit fail: in IMAGE_OCR mode
\* the page is appended with page_processing_status = failed and the
\* remaining pages proceed; in TEXT_EXTRACTION mode the state's error is set
\* to a "Text-based processing failed" message and no processing_result is
\* produced.
C22_NonObjectFails ==
    /\ \A i \in 1..Len(page_results) :
           NonObject(llm_calls[i]) =>
               /\ page_results[i].o["page_processing_status"] = S("failed")
               /\ page_results[i].o["page_number"] = PyInt(i)
               /\ error = ""
               /\ pc = "process_page" \/ Len(page_results) = total_pages
    /\ (TextCallReturned /\ NonObject(llm_calls[1])) =>
           /\ error = "Text-based processing failed: TypeError"
           /\ processing_result = EmptyDict
           /\ pc # "raised"
           /\ pc = "done" => output = Obj([error |-> S(error)])

\* a returned two-page image run whose first response was valid JSON but no
\* object: page 1 is recorded failed and page 2 succeeded
C22_Witness ==
    /\ pc = "done"
    /\ Len(page_results) = MaxPages
    /\ NonObject(llm_calls[1])
    /\ ~IsDict(json_loads(llm_calls[1].content)) /\ llm_calls[1].content # <<Doc(SampleArray)>>
    /\ page_results[1].o["page_processing_status"] = S("failed")
    /\ IsSuccess(page_results[MaxPages])
    /\ output.o["pages_processed"] = PyInt(MaxPages - 1)

=============================================================================
